---- MODULE Spec2Model ----
(***************************************************************************)
(* A model of charcle's synchronization engine (src/charcle/watcher.py)    *)
(* with the file converter (converter.py) and the encoding and filesystem  *)
(* helpers (utils/encoding.py, utils/filesystem.py) it drives.             *)
(*                                                                         *)
(* The two directory trees are maps from relative paths to files; a file   *)
(* is a modification time and its bytes.  Bytes are a text in an encoding. *)
(* A path is a sequence of segments, a segment a sequence of characters,   *)
(* so that the name tests of the code are computed, not assumed.           *)
(***************************************************************************)
EXTENDS Integers, Sequences, FiniteSets, TLC

(***************************************************************************)
(* Bounds of the model.                                                    *)
(***************************************************************************)
MaxTime == 2
MaxEdits == 2
MaxThreads == 2
MaxCallers == 2

None == "None"

(***************************************************************************)
(* File names.                                                             *)
(***************************************************************************)
NameF == <<"f">>
NameG == <<"g">>
NameSwp == <<"f", ".", "s", "w", "p">>
NameSwo == <<"f", ".", "s", "w", "o">>
NameHash == <<"#", "f", "#">>
NameTilde == <<"f", "~">>
NameDotTmp == <<".", "f", ".", "t", "m", "p">>

NameD == <<"d">>
NameE == <<"e">>
NameH == <<"h">>
NameLog == <<"f", ".", "l">>

PathF == <<NameF>>
PathG == <<NameG>>
PathLog == <<NameLog>>
PathDG == <<NameD, NameG>>
PathDEG == <<NameD, NameE, NameG>>
PathDEHG == <<NameD, NameE, NameH, NameG>>

TempPaths == {<<NameSwp>>, <<NameSwo>>, <<NameHash>>, <<NameTilde>>, <<NameDotTmp>>}

Sides == {"src", "dst"}

Other(side) == IF side = "src" THEN "dst" ELSE "src"

StartsWith(s, pre) == Len(s) >= Len(pre) /\ SubSeq(s, 1, Len(pre)) = pre

EndsWith(s, suf) ==
    Len(s) >= Len(suf) /\ SubSeq(s, Len(s) - Len(suf) + 1, Len(s)) = suf

(* os.path.basename / os.path.dirname of a relative path *)
BaseName(path) == path[Len(path)]

DirName(path) == SubSeq(path, 1, Len(path) - 1)

RECURSIVE JoinPath(_)
JoinPath(path) ==
    IF Len(path) = 0 THEN <<>>
    ELSE IF Len(path) = 1 THEN path[1]
    ELSE path[1] \o <<"/">> \o JoinPath(Tail(path))

(* Watcher._is_temp_editor_file *)
IsTempEditorFile(filename) ==
    \/ EndsWith(filename, <<".", "s", "w", "p">>)
    \/ EndsWith(filename, <<".", "s", "w", "o">>)
    \/ StartsWith(filename, <<"#">>) /\ EndsWith(filename, <<"#">>)
    \/ EndsWith(filename, <<"~">>)
    \/ StartsWith(filename, <<".">>) /\ EndsWith(filename, <<".", "t", "m", "p">>)

(* fnmatch.fnmatch on a posix system: "*" any run, "?" any one character *)
RECURSIVE FnMatchFrom(_, _, _, _)
FnMatchFrom(s, i, pat, j) ==
    IF j > Len(pat) THEN i > Len(s)
    ELSE IF pat[j] = "*"
         THEN \E k \in i..(Len(s) + 1) : FnMatchFrom(s, k, pat, j + 1)
    ELSE IF i > Len(s) THEN FALSE
    ELSE (pat[j] = "?" \/ pat[j] = s[i]) /\ FnMatchFrom(s, i + 1, pat, j + 1)

FnMatch(s, pat) == FnMatchFrom(s, 1, pat, 1)

(* utils.filesystem.should_exclude *)
ShouldExclude(path, exclude_patterns) ==
    IF exclude_patterns = <<>> THEN FALSE
    ELSE \E n \in 1..Len(exclude_patterns) :
            LET pattern == exclude_patterns[n] IN
            \/ FnMatch(JoinPath(path), pattern)
            \/ \E m \in 1..Len(path) : FnMatch(path[m], pattern)
            \/ BaseName(path) = pattern
            \/ \E m \in 1..Len(path) : path[m] = pattern

(***************************************************************************)
(* Bytes and encodings.                                                    *)
(***************************************************************************)
SUPPORTED_ENCODINGS == {"utf-8", "euc-jp", "shift-jis", "iso-2022-jp"}

(* the codecs Python can look up, among the names the model uses *)
PythonCodecs == SUPPORTED_ENCODINGS \cup {"ascii"}

(* normalize_encoding: lower case, then the alias table (names are kept lower case) *)
normalize_encoding(encoding) ==
    CASE encoding \in {"shift_jis", "sjis", "windows-31j", "cp932"} -> "shift-jis"
      [] encoding \in {"eucjp", "ujis"} -> "euc-jp"
      [] encoding = "jis" -> "iso-2022-jp"
      [] OTHER -> encoding

is_supported_encoding(encoding) == normalize_encoding(encoding) \in SUPPORTED_ENCODINGS

(* Texts: "e" is empty, "a" is 7-bit only, "j" holds Japanese characters, "x"
   holds characters that no Japanese charset has. *)
Texts == {"e", "a", "j", "x"}

IsAsciiText(text) == text \in {"e", "a"}

(* The bytes of a text in an encoding; 7-bit text has the same bytes in all of them. *)
Bytes(text, enc) == [text |-> text, enc |-> IF IsAsciiText(text) THEN "ascii" ELSE enc]

(* bytes.decode(enc) succeeds (no UnicodeDecodeError) *)
CanDecode(content, enc) == content.enc = "ascii" \/ content.enc = enc

(* str.encode(enc) succeeds (no UnicodeEncodeError) *)
CanEncode(text, enc) ==
    IF IsAsciiText(text) THEN TRUE
    ELSE IF text = "x" THEN enc = "utf-8"
    ELSE enc # "ascii"

(* chardet.detect(content): the results the detector may give for non-empty bytes,
   as <<encoding name or None, confidence in percent>> *)
ChardetResults(content) ==
    IF content.enc = "ascii" THEN {<<"ascii", 100>>}
    ELSE {<<content.enc, 99>>, <<content.enc, 50>>, <<None, 0>>, <<"windows-1252", 73>>}

(* detect_encoding without the test of lines 78-79 for a supported name *)
detect_encodingUnchecked(content, fallback, chardet) ==
    IF content.text = "e" THEN <<fallback, 100>>
    ELSE IF chardet[1] = None THEN <<fallback, 0>>
    ELSE <<normalize_encoding(chardet[1]), chardet[2]>>

(* detect_encoding(content, fallback), given the detector's result *)
detect_encoding(content, fallback, chardet) ==
    IF content.text = "e" THEN <<fallback, 100>>
    ELSE IF chardet[1] = None THEN <<fallback, 0>>
    ELSE IF ~is_supported_encoding(normalize_encoding(chardet[1])) THEN <<fallback, 0>>
    ELSE <<normalize_encoding(chardet[1]), chardet[2]>>

(* convert_encoding without the test of lines 98-99 for equal names *)
convert_encodingNoIdentity(content, from_encoding, to_encoding) ==
    IF from_encoding \notin PythonCodecs \/ to_encoding \notin PythonCodecs
    THEN [content |-> content, success |-> FALSE, raised |-> TRUE]
    ELSE IF CanDecode(content, from_encoding) /\ CanEncode(content.text, to_encoding)
    THEN [content |-> Bytes(content.text, to_encoding), success |-> TRUE, raised |-> FALSE]
    ELSE [content |-> content, success |-> FALSE, raised |-> FALSE]

(* convert_encoding: the bytes returned and the success flag; raised is the
   LookupError of an unknown codec name, which the function does not catch *)
convert_encoding(content, from_encoding, to_encoding) ==
    IF from_encoding = to_encoding
    THEN [content |-> content, success |-> TRUE, raised |-> FALSE]
    ELSE IF from_encoding \notin PythonCodecs \/ to_encoding \notin PythonCodecs
    THEN [content |-> content, success |-> FALSE, raised |-> TRUE]
    ELSE IF CanDecode(content, from_encoding) /\ CanEncode(content.text, to_encoding)
    THEN [content |-> Bytes(content.text, to_encoding), success |-> TRUE, raised |-> FALSE]
    ELSE [content |-> content, success |-> FALSE, raised |-> FALSE]

(***************************************************************************)
(* Files, the converter and the snapshot.                                  *)
(***************************************************************************)
NoFile == [exists |-> FALSE, mtime |-> 0, text |-> "e", enc |-> "ascii"]

File(mtime, content) ==
    [exists |-> TRUE, mtime |-> mtime, text |-> content.text, enc |-> content.enc]

Content(file) == [text |-> file.text, enc |-> file.enc]

(* Converter.__init__: the attributes a converter has (no fallback_charset) *)
Converter(from_encoding, to_encoding, exclude_patterns) ==
    [from_encoding |-> from_encoding, to_encoding |-> to_encoding,
     exclude_patterns |-> exclude_patterns]

(* a converter that carries the fallback_charset the command line and the watcher
   read (cli.py line 127, watcher.py line 214) *)
ConverterWithFallback(from_encoding, to_encoding, exclude_patterns, fallback_charset) ==
    [from_encoding |-> from_encoding, to_encoding |-> to_encoding,
     exclude_patterns |-> exclude_patterns, fallback_charset |-> fallback_charset]

(* converter.fallback_charset where the converter has the attribute *)
FallbackCharset(c) == IF "fallback_charset" \in DOMAIN c THEN c["fallback_charset"] ELSE None

(* is_text_file: a regular file with no NUL byte ("b" is such binary content) *)
is_text_file(file) == file.exists /\ file.text # "b"

(* the modification time a file gets when it is written with open(dst, "wb") *)
Now == MaxTime

(* copy_metadata(src, dst): dst with the timestamps of src *)
copy_metadata(src_file, dst_file) == [dst_file EXCEPT !.mtime = src_file.mtime]

(* shutil.copy2(src, dst): the bytes and the timestamps of src *)
copy2(file) == File(file.mtime, Content(file))

(* the encoding convert_file reads file in, and the confidence in it *)
SourceEncoding(c, file, chardet) ==
    IF c.from_encoding = None
    THEN detect_encoding(Content(file), "utf-8", chardet)
    ELSE <<c.from_encoding, 100>>

(* the branch convert_file takes for file, by the message it logs *)
ConvertFileLog(c, file, chardet) ==
    IF is_text_file(file)
    THEN LET r == convert_encoding(Content(file), SourceEncoding(c, file, chardet)[1],
                                   c.to_encoding)
         IN  IF r.raised THEN "Error converting"
             ELSE IF r.success THEN "Converted" ELSE "Failed to convert"
    ELSE "Copied binary file"

(* confidence < 0.7: convert_file logs the low-confidence warning *)
LowConfidenceWarning(c, file, chardet) ==
    is_text_file(file) /\ SourceEncoding(c, file, chardet)[2] < 70

convert_fileNoMetadata(c, file, chardet) ==
    IF is_text_file(file)
    THEN LET r == convert_encoding(Content(file), SourceEncoding(c, file, chardet)[1],
                                   c.to_encoding)
         IN  IF ~r.raised /\ r.success
             THEN File(Now, r.content)
             ELSE copy2(file)
    ELSE copy2(file)

convert_fileNoCopy(c, file, chardet) ==
    IF is_text_file(file)
    THEN LET r == convert_encoding(Content(file), SourceEncoding(c, file, chardet)[1],
                                   c.to_encoding)
         IN  IF ~r.raised /\ r.success
             THEN copy_metadata(file, File(Now, r.content))
             ELSE copy_metadata(file, File(Now, [text |-> "e", enc |-> "ascii"]))
    ELSE copy_metadata(file, copy2(file))

(* Converter.convert_file(src_file, dst_file) for an existing src_file: the file
   dst_file is afterwards; chardet is the detector's answer, were it asked *)
convert_file(c, file, chardet) ==
    IF is_text_file(file)
    THEN LET r == convert_encoding(Content(file), SourceEncoding(c, file, chardet)[1],
                                   c.to_encoding)
         IN  IF ~r.raised /\ r.success
             THEN copy_metadata(file, File(Now, r.content))
             ELSE copy_metadata(file, copy2(file))
    ELSE copy_metadata(file, copy2(file))

Key(prefix, rel_path) == <<prefix, rel_path>>

NoMtimes == [k \in {} |-> 0]

(* the scan without the test of lines 168-170 for an editor's file *)
scan_filesAll(names, c, fs, mtimes, prefix) ==
    LET found == {p \in names :
                    /\ fs[p].exists
                    /\ ~(DirName(p) # <<>> /\ ShouldExclude(DirName(p), c.exclude_patterns))
                    /\ ~ShouldExclude(p, c.exclude_patterns)}
        keys == {Key(prefix, p) : p \in found}
    IN  [k \in (DOMAIN mtimes) \cup keys |->
            IF k \in keys THEN fs[k[2]].mtime ELSE mtimes[k]]

(* the scan without the test of lines 173-175 for an excluded file *)
scan_filesUnfiltered(names, c, fs, mtimes, prefix) ==
    LET found == {p \in names :
                    /\ fs[p].exists
                    /\ ~(DirName(p) # <<>> /\ ShouldExclude(DirName(p), c.exclude_patterns))
                    /\ ~IsTempEditorFile(BaseName(p))}
        keys == {Key(prefix, p) : p \in found}
    IN  [k \in (DOMAIN mtimes) \cup keys |->
            IF k \in keys THEN fs[k[2]].mtime ELSE mtimes[k]]

(* Watcher._scan_files(directory, mtimes, prefix): mtimes afterwards *)
scan_files(names, c, fs, mtimes, prefix) ==
    LET found == {p \in names :
                    /\ fs[p].exists
                    /\ ~(DirName(p) # <<>> /\ ShouldExclude(DirName(p), c.exclude_patterns))
                    /\ ~IsTempEditorFile(BaseName(p))
                    /\ ~ShouldExclude(p, c.exclude_patterns)}
        keys == {Key(prefix, p) : p \in found}
    IN  [k \in (DOMAIN mtimes) \cup keys |->
            IF k \in keys THEN fs[k[2]].mtime ELSE mtimes[k]]

(* the guard with < for <=: a mirror as old as its source counts as edited *)
NotNewerStrict(dst_mtime, src_mtime) == dst_mtime < src_mtime

(* the guard of lines 272-276: the destination change is the trace of a push-forward *)
NotNewer(dst_mtime, src_mtime) == dst_mtime <= src_mtime

(* _determine_encoding adding the path to the fallback-file set at lines 220-223
   as well *)
determine_encodingTagAlways(c, src_file, rel_path, fallback_files, chardet) ==
    LET has_attr == "fallback_charset" \in DOMAIN c
        fallback_charset == IF has_attr THEN c["fallback_charset"] ELSE None
        plain == [enc |-> c.from_encoding, fb |-> fallback_files, raised |-> FALSE]
        tagged == [plain EXCEPT !.enc = fallback_charset,
                                !.fb = fallback_files \cup {rel_path}]
    IN  IF ~has_attr THEN [plain EXCEPT !.raised = TRUE]
        ELSE IF fallback_charset # None /\ ~src_file.exists THEN tagged
        ELSE IF ~src_file.exists THEN plain
        ELSE IF fallback_charset # None THEN tagged
        ELSE LET d == detect_encoding(Content(src_file), "utf-8", chardet) IN
             IF d[2] >= 70
             THEN [plain EXCEPT !.enc = d[1], !.fb = fallback_files \ {rel_path}]
             ELSE plain

(* _determine_encoding without the return of lines 220-223 *)
determine_encodingNoKeep(c, src_file, rel_path, fallback_files, chardet) ==
    LET is_fallback_file == rel_path \in fallback_files
        has_attr == "fallback_charset" \in DOMAIN c
        fallback_charset == IF has_attr THEN c["fallback_charset"] ELSE None
        plain == [enc |-> c.from_encoding, fb |-> fallback_files, raised |-> FALSE]
    IN  IF ~src_file.exists
        THEN IF ~has_attr THEN [plain EXCEPT !.raised = TRUE]
             ELSE IF fallback_charset # None
             THEN [plain EXCEPT !.enc = fallback_charset,
                                !.fb = fallback_files \cup {rel_path}]
             ELSE plain
        ELSE IF is_fallback_file /\ ~has_attr THEN [plain EXCEPT !.raised = TRUE]
        ELSE IF is_fallback_file /\ fallback_charset # None /\ src_file.enc = "ascii"
        THEN [plain EXCEPT !.enc = fallback_charset]
        ELSE LET d == detect_encoding(Content(src_file), "utf-8", chardet) IN
             IF d[2] >= 70
             THEN [plain EXCEPT !.enc = d[1], !.fb = fallback_files \ {rel_path}]
             ELSE plain

(* _determine_encoding without the detection of lines 236-238 *)
determine_encodingUndetected(c, src_file, rel_path, fallback_files, chardet) ==
    LET has_attr == "fallback_charset" \in DOMAIN c
        fallback_charset == IF has_attr THEN c["fallback_charset"] ELSE None
        plain == [enc |-> c.from_encoding, fb |-> fallback_files, raised |-> FALSE]
    IN  IF ~src_file.exists
        THEN IF ~has_attr THEN [plain EXCEPT !.raised = TRUE]
             ELSE IF fallback_charset # None
             THEN [plain EXCEPT !.enc = fallback_charset,
                                !.fb = fallback_files \cup {rel_path}]
             ELSE plain
        ELSE IF rel_path \in fallback_files /\ ~has_attr THEN [plain EXCEPT !.raised = TRUE]
        ELSE IF rel_path \in fallback_files /\ fallback_charset # None
        THEN [plain EXCEPT !.enc = fallback_charset]
        ELSE plain

(* Watcher._determine_encoding(src_file, rel_path): the encoding returned, the
   fallback-file set afterwards, and whether AttributeError was raised reading
   converter.fallback_charset *)
determine_encoding(c, src_file, rel_path, fallback_files, chardet) ==
    LET is_fallback_file == rel_path \in fallback_files
        has_attr == "fallback_charset" \in DOMAIN c
        fallback_charset == IF has_attr THEN c["fallback_charset"] ELSE None
        plain == [enc |-> c.from_encoding, fb |-> fallback_files, raised |-> FALSE]
    IN  IF ~src_file.exists
        THEN IF ~has_attr THEN [plain EXCEPT !.raised = TRUE]
             ELSE IF fallback_charset # None
             THEN [plain EXCEPT !.enc = fallback_charset,
                                !.fb = fallback_files \cup {rel_path}]
             ELSE plain
        ELSE IF is_fallback_file /\ ~has_attr THEN [plain EXCEPT !.raised = TRUE]
        ELSE IF is_fallback_file /\ fallback_charset # None
        THEN [plain EXCEPT !.enc = fallback_charset]
        ELSE LET d == detect_encoding(Content(src_file), "utf-8", chardet) IN
             IF d[2] >= 70
             THEN [plain EXCEPT !.enc = d[1], !.fb = fallback_files \ {rel_path}]
             ELSE plain

(***************************************************************************)
(* The state.                                                              *)
(***************************************************************************)
VARIABLES
    world,          \* the paths and contents this run is about
    names,          \* the relative paths under the two roots
    converter,      \* Watcher.converter
    srcFS, dstFS,   \* the two trees: path -> file
    running,        \* Watcher.running
    thread,         \* Watcher.thread: a thread id, 0 for None
    file_mtimes,    \* Watcher.file_mtimes: the stored snapshot
    fallback_files, \* Watcher.fallback_files
    scan_complete,  \* Watcher._initial_scan_complete
    nthreads,       \* the Thread objects created so far
    wpc,            \* thread id -> where that worker is in _watch_loop
    cur,            \* thread id -> current_mtimes of its _process_changes
    todo,           \* thread id -> keys of current_mtimes not yet iterated
    dtodo,          \* thread id -> deleted keys not yet iterated
    cpc,            \* caller -> where it is in start() or stop()
    cjoin,          \* caller -> the thread its stop() joins
    edits,          \* external edits still allowed
    ev,             \* what the last step did
    hist            \* history of the files, kept for the properties only

vars == <<world, names, converter, srcFS, dstFS, running, thread, file_mtimes,
          fallback_files, scan_complete, nthreads, wpc, cur, todo, dtodo,
          cpc, cjoin, edits, ev, hist>>

Threads == 1..MaxThreads
Callers == 1..MaxCallers
Mtimes == 0..MaxTime

(* what a step did: the kind of step, the thread or caller, the key handled, the
   two files of the key's path as they were before the step and, for a write-back
   that asked the detector about the source file, the detector's answer *)
NoAnswer == <<None, 0>>
Ev(kind, who, key, src_file, dst_file) ==
    [kind |-> kind, who |-> who, key |-> key, src |-> src_file, dst |-> dst_file,
     det |-> NoAnswer]
NoKey == Key("src", <<>>)
Call(kind, who) == Ev(kind, who, NoKey, NoFile, NoFile)
Idle == Call("idle", 0)

FS(side) == IF side = "src" THEN srcFS ELSE dstFS

Alive(t) == wpc[t] \notin {"unborn", "created", "dead"}

(***************************************************************************)
(* The initial states: a watcher just constructed over two existing trees. *)
(***************************************************************************)
JEuc == Bytes("j", "euc-jp")
JUtf == Bytes("j", "utf-8")
Ascii == Bytes("a", "ascii")
Empty == Bytes("e", "ascii")
JSjis == Bytes("j", "shift-jis")
XUtf == Bytes("x", "utf-8")

(* A world is the paths of a run, the converter the watcher is given and what an
   editor writes on each side. *)
World(ns, c, src_contents, dst_contents, n_edits, n_threads, track) ==
    [names |-> ns, converter |-> c, src |-> src_contents, dst |-> dst_contents,
     edits |-> n_edits, threads |-> n_threads, track |-> track]

(* one run of the watcher over two ordinary files, or over an editor's file, or
   runs of it, one after the other, over one ordinary file *)
WorldsTracking(track) ==
    {World({PathF, PathG}, Converter(None, "utf-8", <<>>), {JEuc}, {JUtf}, MaxEdits, 1,
           track),
     World({PathF}, Converter(None, "utf-8", <<>>), {JEuc}, {JUtf}, MaxEdits, MaxThreads,
           track)}
    \cup {World({t}, Converter("euc-jp", "utf-8", <<>>), {JEuc, Ascii},
                 {JUtf, Ascii}, MaxEdits, 1, track) : t \in TempPaths}

Worlds == WorldsTracking({"pushed", "pristine"})

ExternalContents(side) == IF side = "src" THEN world.src ELSE world.dst

(* the trees at construction: any of the files may be there, mirrored or not; the
   second ordinary file is there on both sides or on none *)
InitTrees(ns) ==
    /\ srcFS \in [ns -> {NoFile, File(0, JEuc)}]
    /\ dstFS \in [ns -> {NoFile, File(0, JUtf)}]
    /\ PathG \in ns => srcFS[PathG].exists = dstFS[PathG].exists

(* Watcher.__init__ *)
InitWatcher ==
    /\ running = FALSE
    /\ thread = 0
    /\ file_mtimes = NoMtimes
    /\ fallback_files = {}
    /\ scan_complete = FALSE
    /\ nthreads = 0
    /\ wpc = [t \in Threads |-> "unborn"]
    /\ cur = [t \in Threads |-> NoMtimes]
    /\ todo = [t \in Threads |-> {}]
    /\ dtodo = [t \in Threads |-> {}]
    /\ cpc = [c \in Callers |-> "idle"]
    /\ cjoin = [c \in Callers |-> 0]
    /\ ev = Idle
    /\ hist = [pushed |-> {}, pristine |-> {}, cold |-> [c \in Callers |-> {}],
               retired |-> {}, written |-> {}]

Init ==
    /\ world \in Worlds
    /\ names = world.names
    /\ converter = world.converter
    /\ InitTrees(names)
    /\ InitWatcher
    /\ edits = world.edits

(***************************************************************************)
(* The environment: editors writing and deleting files in either tree.     *)
(***************************************************************************)
(* hist.pushed: the paths pushed forward with no external edit since;
   hist.pristine: the keys of the files that were there when start() was called
   and that nothing has written or removed since;
   hist.cold[c]: the workers that were in the loop when caller c called stop();
   hist.retired: the workers that were in the loop when a stop() that has returned
   was called;
   hist.written: the paths written back with no external edit since.
   A world keeps the fields its properties read; the others stay as they began. *)
Track(field, value) == IF field \in world.track THEN value ELSE hist[field]

Touched(pushed, keys) ==
    [hist EXCEPT !.pushed = Track("pushed", pushed),
                 !.pristine = Track("pristine", hist.pristine \ keys)]

ExistingKeys ==
    {Key("src", p) : p \in {q \in names : srcFS[q].exists}}
    \cup {Key("dst", p) : p \in {q \in names : dstFS[q].exists}}

SetFile(side, p, file) ==
    /\ srcFS' = IF side = "src" THEN [srcFS EXCEPT ![p] = file] ELSE srcFS
    /\ dstFS' = IF side = "dst" THEN [dstFS EXCEPT ![p] = file] ELSE dstFS

Engine == <<running, thread, file_mtimes, fallback_files, scan_complete, nthreads,
            wpc, cur, todo, dtodo, cpc, cjoin>>

ExternalWrite(side, p, m, content) ==
    /\ edits > 0
    /\ edits' = edits - 1
    /\ SetFile(side, p, File(m, content))
    /\ ev' = Idle
    /\ hist' = [Touched(hist.pushed \ {p}, {Key(side, p)})
                EXCEPT !.written = Track("written", hist.written \ {p})]
    /\ UNCHANGED <<world, names, converter, Engine>>

ExternalDelete(side, p) ==
    /\ edits > 0
    /\ FS(side)[p].exists
    /\ edits' = edits - 1
    /\ SetFile(side, p, NoFile)
    /\ ev' = Idle
    /\ hist' = [Touched(hist.pushed \ {p}, {Key(side, p)})
                EXCEPT !.written = Track("written", hist.written \ {p})]
    /\ UNCHANGED <<world, names, converter, Engine>>

(***************************************************************************)
(* start() and stop(), statement by statement.                             *)
(***************************************************************************)
InStart(c) == cpc[c] \in {"start_80", "start_81", "start_83"}

(* start() without the test of line 77 *)
StartCheckAlways(c) ==
    /\ cpc[c] = "idle"
    /\ nthreads + Cardinality({d \in Callers : InStart(d)}) < MaxThreads
    /\ cpc' = [cpc EXCEPT ![c] = "start_80"]
    /\ ev' = Call(IF running THEN "start_running" ELSE "start", c)
    /\ UNCHANGED <<world, names, converter, hist, srcFS, dstFS, running, thread, file_mtimes,
                   fallback_files, scan_complete, nthreads, wpc, cur, todo, dtodo,
                   cjoin, edits>>

(* line 77: if self.running: return *)
StartCheck(c) ==
    /\ cpc[c] = "idle"
    /\ running \/ nthreads + Cardinality({d \in Callers : InStart(d)}) < world.threads
    /\ cpc' = IF running THEN cpc ELSE [cpc EXCEPT ![c] = "start_80"]
    /\ ev' = Call(IF running THEN "start_running" ELSE "start", c)
    /\ UNCHANGED <<world, names, converter, hist, srcFS, dstFS, running, thread, file_mtimes,
                   fallback_files, scan_complete, nthreads, wpc, cur, todo, dtodo,
                   cjoin, edits>>

(* line 80: self.running = True *)
StartSetRunning(c) ==
    /\ cpc[c] = "start_80"
    /\ running' = TRUE
    /\ cpc' = [cpc EXCEPT ![c] = "start_81"]
    /\ ev' = Idle
    /\ hist' = [hist EXCEPT !.pristine = Track("pristine", ExistingKeys)]
    /\ UNCHANGED <<world, names, converter, srcFS, dstFS, thread, file_mtimes,
                   fallback_files, scan_complete, nthreads, wpc, cur, todo, dtodo,
                   cjoin, edits>>

(* lines 81-82: self.thread = threading.Thread(target=self._watch_loop) *)
StartCreateThread(c) ==
    /\ cpc[c] = "start_81"
    /\ nthreads' = nthreads + 1
    /\ thread' = nthreads + 1
    /\ wpc' = [wpc EXCEPT ![nthreads + 1] = "created"]
    /\ cpc' = [cpc EXCEPT ![c] = "start_83"]
    /\ ev' = Idle
    /\ UNCHANGED <<world, names, converter, hist, srcFS, dstFS, running, file_mtimes,
                   fallback_files, scan_complete, cur, todo, dtodo, cjoin, edits>>

(* line 83: self.thread.start(); a thread already started raises RuntimeError *)
StartThread(c) ==
    /\ cpc[c] = "start_83"
    /\ wpc' = IF wpc[thread] = "created" THEN [wpc EXCEPT ![thread] = "init"] ELSE wpc
    /\ cpc' = [cpc EXCEPT ![c] = "idle"]
    /\ ev' = Idle
    /\ UNCHANGED <<world, names, converter, hist, srcFS, dstFS, running, thread, file_mtimes,
                   fallback_files, scan_complete, nthreads, cur, todo, dtodo,
                   cjoin, edits>>

(* line 97: self.running = False *)
StopSetRunning(c) ==
    /\ cpc[c] = "idle"
    /\ running' = FALSE
    /\ cpc' = [cpc EXCEPT ![c] = "stop_98"]
    /\ ev' = Idle
    /\ hist' = [hist EXCEPT !.cold = Track("cold", [hist.cold EXCEPT
                                                     ![c] = {t \in Threads : Alive(t)}])]
    /\ UNCHANGED <<world, names, converter, srcFS, dstFS, thread, file_mtimes,
                   fallback_files, scan_complete, nthreads, wpc, cur, todo, dtodo,
                   cjoin, edits>>

(* lines 98-99: if self.thread: self.thread.join() is entered; no thread, or a
   thread not started yet (RuntimeError), ends the call *)
StopJoin(c) ==
    /\ cpc[c] = "stop_98"
    /\ IF thread = 0 \/ wpc[thread] = "created"
       THEN /\ cpc' = [cpc EXCEPT ![c] = "idle"]
            /\ cjoin' = cjoin
            /\ ev' = Call(IF thread = 0 THEN "stop_return" ELSE "stop_raise", c)
            /\ hist' = [hist EXCEPT !.retired = Track("retired", hist.retired \cup hist.cold[c])]
       ELSE /\ cpc' = [cpc EXCEPT ![c] = "stop_join"]
            /\ cjoin' = [cjoin EXCEPT ![c] = thread]
            /\ ev' = Idle
            /\ hist' = hist
    /\ UNCHANGED <<world, names, converter, srcFS, dstFS, running, thread, file_mtimes,
                   fallback_files, scan_complete, nthreads, wpc, cur, todo, dtodo,
                   edits>>

(* line 99: join() returns once the joined thread has terminated *)
StopReturn(c) ==
    /\ cpc[c] = "stop_join"
    /\ wpc[cjoin[c]] = "dead"
    /\ cpc' = [cpc EXCEPT ![c] = "idle"]
    /\ cjoin' = [cjoin EXCEPT ![c] = 0]
    /\ ev' = Call("stop_return", c)
    /\ hist' = [hist EXCEPT !.retired = Track("retired", hist.retired \cup hist.cold[c])]
    /\ UNCHANGED <<world, names, converter, srcFS, dstFS, running, thread, file_mtimes,
                   fallback_files, scan_complete, nthreads, wpc, cur, todo, dtodo,
                   edits>>

(***************************************************************************)
(* The worker: _watch_loop and _process_changes, one step per scan, per    *)
(* key handled and per assignment of the snapshot.                         *)
(***************************************************************************)
Control == <<running, thread, nthreads, cpc, cjoin>>

ScanBoth(mtimes) ==
    scan_files(names, converter, dstFS,
               scan_files(names, converter, srcFS, mtimes, "src"), "dst")

(* the worker entering the loop without the scan of lines 126-130 *)
WatchLoopInitNoScan(t) ==
    /\ wpc[t] = "init"
    /\ scan_complete' = TRUE
    /\ wpc' = [wpc EXCEPT ![t] = "loop"]
    /\ ev' = Call("seed", t)
    /\ UNCHANGED <<world, names, converter, hist, srcFS, dstFS, file_mtimes, fallback_files,
                   cur, todo, dtodo, Control, edits>>

(* lines 126-130: the initial scan into self.file_mtimes *)
WatchLoopInit(t) ==
    /\ wpc[t] = "init"
    /\ file_mtimes' = ScanBoth(file_mtimes)
    /\ scan_complete' = TRUE
    /\ wpc' = [wpc EXCEPT ![t] = "loop"]
    /\ ev' = Call("seed", t)
    /\ UNCHANGED <<world, names, converter, hist, srcFS, dstFS, fallback_files, cur, todo, dtodo,
                   Control, edits>>

(* the loop of line 132 as while True *)
WatchLoopCheckForever(t) ==
    /\ wpc[t] = "loop"
    /\ wpc' = [wpc EXCEPT ![t] = "scan"]
    /\ ev' = Idle
    /\ UNCHANGED <<world, names, converter, hist, srcFS, dstFS, file_mtimes, fallback_files,
                   scan_complete, cur, todo, dtodo, Control, edits>>

(* line 132: while self.running *)
WatchLoopCheck(t) ==
    /\ wpc[t] = "loop"
    /\ wpc' = [wpc EXCEPT ![t] = IF running THEN "scan" ELSE "dead"]
    /\ ev' = Idle
    /\ UNCHANGED <<world, names, converter, hist, srcFS, dstFS, file_mtimes, fallback_files,
                   scan_complete, cur, todo, dtodo, Control, edits>>

(* the keys of the stored snapshot that the scan no longer has (lines 352-353) *)
DeletedKeys(mtimes, current_mtimes) == (DOMAIN mtimes) \ (DOMAIN current_mtimes)

(* lines 327-329: the fresh scan of both trees *)
ProcessScan(t) ==
    /\ wpc[t] = "scan"
    /\ LET current_mtimes == ScanBoth(NoMtimes) IN
       /\ cur' = [cur EXCEPT ![t] = current_mtimes]
       /\ todo' = [todo EXCEPT ![t] = DOMAIN current_mtimes]
       /\ dtodo' = [dtodo EXCEPT ![t] = IF DOMAIN current_mtimes = {}
                                        THEN DeletedKeys(file_mtimes, current_mtimes)
                                        ELSE {}]
       /\ wpc' = [wpc EXCEPT ![t] = IF DOMAIN current_mtimes = {}
                                    THEN "deletes" ELSE "changes"]
    /\ ev' = Idle
    /\ UNCHANGED <<world, names, converter, hist, srcFS, dstFS, file_mtimes, fallback_files,
                   scan_complete, Control, edits>>

(* the next key of current_mtimes.items(): source keys were inserted first *)
IsNext(t, k) ==
    /\ wpc[t] = "changes"
    /\ k \in todo[t]
    /\ k[1] = "dst" => \A j \in todo[t] : j[1] = "dst"

(* the test of line 342 with >= for > *)
IsChangedOrSame(mtimes, current_mtimes, k) ==
    IF k \notin DOMAIN mtimes THEN TRUE ELSE current_mtimes[k] >= mtimes[k]

(* lines 336 and 342: the key is new, or its mtime is greater than the stored one *)
IsChanged(mtimes, current_mtimes, k) ==
    IF k \notin DOMAIN mtimes THEN TRUE ELSE current_mtimes[k] > mtimes[k]

(* the loop of lines 334-350 moves on, or the exception leaves _process_changes *)
Advance(t, k, raised) ==
    LET rest == todo[t] \ {k} IN
    /\ todo' = [todo EXCEPT ![t] = IF raised THEN {} ELSE rest]
    /\ wpc' = [wpc EXCEPT ![t] = IF raised THEN "except"
                                 ELSE IF rest = {} THEN "deletes" ELSE "changes"]
    /\ dtodo' = [dtodo EXCEPT ![t] = IF ~raised /\ rest = {}
                                     THEN DeletedKeys(file_mtimes, cur[t]) ELSE {}]

(* lines 334-350 for a key that is neither new nor modified *)
SkipUnchanged(t, k) ==
    /\ IsNext(t, k)
    /\ ~IsChanged(file_mtimes, cur[t], k)
    /\ Advance(t, k, FALSE)
    /\ ev' = Ev("unchanged", t, k, srcFS[k[2]], dstFS[k[2]])
    /\ UNCHANGED <<world, names, converter, hist, srcFS, dstFS, file_mtimes, fallback_files,
                   scan_complete, cur, Control, edits>>

(* Watcher._handle_source_change: push forward *)
HandleSourceChange(t, k) ==
    /\ IsNext(t, k)
    /\ k[1] = "src"
    /\ IsChanged(file_mtimes, cur[t], k)
    /\ LET p == k[2] IN
       IF srcFS[p].exists
       THEN \E chardet \in ChardetResults(Content(srcFS[p])) :
               /\ dstFS' = [dstFS EXCEPT ![p] = convert_file(converter, srcFS[p], chardet)]
               /\ ev' = Ev("push", t, k, srcFS[k[2]], dstFS[k[2]])
               /\ hist' = Touched(hist.pushed \cup {p}, {Key("dst", p)})
       ELSE /\ dstFS' = dstFS
            /\ ev' = Ev("push_error", t, k, srcFS[k[2]], dstFS[k[2]])
            /\ hist' = hist
    /\ Advance(t, k, FALSE)
    /\ UNCHANGED <<world, names, converter, srcFS, file_mtimes, fallback_files,
                   scan_complete, cur, Control, edits>>

(* Watcher._handle_destination_change: write back, unless the change is ignored *)
HandleDestinationChange(t, k) ==
    /\ IsNext(t, k)
    /\ k[1] = "dst"
    /\ IsChanged(file_mtimes, cur[t], k)
    /\ LET p == k[2] IN
       IF ShouldExclude(p, converter.exclude_patterns)
       THEN /\ ev' = Ev("dst_excluded", t, k, srcFS[k[2]], dstFS[k[2]])
            /\ Advance(t, k, FALSE)
            /\ UNCHANGED <<srcFS, fallback_files, hist>>
       ELSE IF ~dstFS[p].exists
       THEN /\ ev' = Ev("dst_missing", t, k, srcFS[k[2]], dstFS[k[2]])
            /\ Advance(t, k, FALSE)
            /\ UNCHANGED <<srcFS, fallback_files, hist>>
       ELSE IF srcFS[p].exists /\ NotNewer(dstFS[p].mtime, srcFS[p].mtime)
       THEN /\ ev' = Ev("dst_ignored", t, k, srcFS[k[2]], dstFS[k[2]])
            /\ Advance(t, k, FALSE)
            /\ UNCHANGED <<srcFS, fallback_files, hist>>
       ELSE \E chardet \in ChardetResults(Content(srcFS[p])) :
            LET e == determine_encoding(converter, srcFS[p], p, fallback_files, chardet)
                reverse_converter ==
                    Converter(converter.to_encoding,
                              IF e.enc = None THEN "utf-8" ELSE e.enc,
                              converter.exclude_patterns)
            IN  IF e.raised
                THEN /\ ev' = Ev("dst_raise", t, k, srcFS[k[2]], dstFS[k[2]])
                     /\ Advance(t, k, TRUE)
                     /\ UNCHANGED <<srcFS, fallback_files, hist>>
                ELSE /\ ev' = [Ev("writeback", t, k, srcFS[k[2]], dstFS[k[2]])
                                  EXCEPT !.det = IF srcFS[p].exists THEN chardet
                                                 ELSE NoAnswer]
                     /\ Advance(t, k, FALSE)
                     /\ fallback_files' = e.fb
                     /\ hist' = [Touched(hist.pushed, {Key("src", p)})
                                 EXCEPT !.written = Track("written",
                                                          hist.written \cup {p})]
                     /\ srcFS' = [srcFS EXCEPT
                                    ![p] = convert_file(reverse_converter, dstFS[p], chardet)]
    /\ UNCHANGED <<world, names, converter, dstFS, file_mtimes, scan_complete, cur,
                   Control, edits>>

(* Watcher._handle_deleted_file and line 356, for a key the scan no longer has *)
HandleDeletedFile(t, k) ==
    /\ wpc[t] = "deletes"
    /\ k \in dtodo[t]
    /\ LET p == k[2]
           opposite == Other(k[1])
       IN  IF IsTempEditorFile(BaseName(p))
           THEN /\ ev' = Ev("del_temp", t, k, srcFS[k[2]], dstFS[k[2]])
                /\ UNCHANGED <<srcFS, dstFS, hist>>
           ELSE IF FS(opposite)[p].exists
           THEN /\ ev' = Ev("del_remove", t, k, srcFS[k[2]], dstFS[k[2]])
                /\ SetFile(opposite, p, NoFile)
                /\ hist' = Touched(hist.pushed, {Key(opposite, p)})
           ELSE /\ ev' = Ev("del_absent", t, k, srcFS[k[2]], dstFS[k[2]])
                /\ UNCHANGED <<srcFS, dstFS, hist>>
    /\ IF k \in DOMAIN file_mtimes
       THEN /\ file_mtimes' = [j \in (DOMAIN file_mtimes) \ {k} |-> file_mtimes[j]]
            /\ dtodo' = [dtodo EXCEPT ![t] = dtodo[t] \ {k}]
            /\ wpc' = wpc
       ELSE /\ file_mtimes' = file_mtimes
            /\ dtodo' = [dtodo EXCEPT ![t] = {}]
            /\ wpc' = [wpc EXCEPT ![t] = "except"]
    /\ UNCHANGED <<world, names, converter, fallback_files, scan_complete, cur, todo,
                   Control, edits>>

(* the tick without the assignment of line 358 *)
ReplaceSnapshotKept(t) ==
    /\ wpc[t] = "deletes"
    /\ dtodo[t] = {}
    /\ file_mtimes' = file_mtimes
    /\ wpc' = [wpc EXCEPT ![t] = "sleep"]
    /\ ev' = Call("replace", t)
    /\ UNCHANGED <<world, names, converter, hist, srcFS, dstFS, fallback_files, scan_complete,
                   cur, todo, dtodo, Control, edits>>

(* line 358: self.file_mtimes = current_mtimes *)
ReplaceSnapshot(t) ==
    /\ wpc[t] = "deletes"
    /\ dtodo[t] = {}
    /\ file_mtimes' = cur[t]
    /\ wpc' = [wpc EXCEPT ![t] = "sleep"]
    /\ ev' = Call("replace", t)
    /\ UNCHANGED <<world, names, converter, hist, srcFS, dstFS, fallback_files, scan_complete,
                   cur, todo, dtodo, Control, edits>>

(* the loop without the except clause of lines 137-139: the exception ends the thread *)
WatchLoopSleepUncaught(t) ==
    /\ wpc[t] \in {"sleep", "except"}
    /\ wpc' = [wpc EXCEPT ![t] = IF wpc[t] = "except" THEN "dead" ELSE "loop"]
    /\ ev' = IF wpc[t] = "except" THEN Call("caught", t) ELSE Idle
    /\ UNCHANGED <<world, names, converter, hist, srcFS, dstFS, file_mtimes, fallback_files,
                   scan_complete, cur, todo, dtodo, Control, edits>>

(* the except clause storing the scan of the tick that was aborted *)
WatchLoopSleepStoring(t) ==
    /\ wpc[t] \in {"sleep", "except"}
    /\ wpc' = [wpc EXCEPT ![t] = "loop"]
    /\ file_mtimes' = IF wpc[t] = "except" THEN cur[t] ELSE file_mtimes
    /\ ev' = IF wpc[t] = "except" THEN Call("caught", t) ELSE Idle
    /\ UNCHANGED <<world, names, converter, hist, srcFS, dstFS, fallback_files,
                   scan_complete, cur, todo, dtodo, Control, edits>>

(* lines 136 and 139: time.sleep(self.interval), after the tick or its exception *)
WatchLoopSleep(t) ==
    /\ wpc[t] \in {"sleep", "except"}
    /\ wpc' = [wpc EXCEPT ![t] = "loop"]
    /\ ev' = IF wpc[t] = "except" THEN Call("caught", t) ELSE Idle
    /\ UNCHANGED <<world, names, converter, hist, srcFS, dstFS, file_mtimes, fallback_files,
                   scan_complete, cur, todo, dtodo, Control, edits>>

(***************************************************************************)
(* The specifications.                                                     *)
(***************************************************************************)
External ==
    \E side \in Sides, p \in names :
        \/ \E m \in Mtimes, content \in ExternalContents(side) :
              ExternalWrite(side, p, m, content)
        \/ ExternalDelete(side, p)

Worker(t) ==
    \/ WatchLoopInit(t)
    \/ WatchLoopCheck(t)
    \/ ProcessScan(t)
    \/ \E k \in todo[t] :
          \/ SkipUnchanged(t, k)
          \/ HandleSourceChange(t, k)
          \/ HandleDestinationChange(t, k)
    \/ \E k \in dtodo[t] : HandleDeletedFile(t, k)
    \/ ReplaceSnapshot(t)
    \/ WatchLoopSleep(t)

Start(c) ==
    \/ StartCheck(c)
    \/ StartSetRunning(c)
    \/ StartCreateThread(c)
    \/ StartThread(c)

Stop(c) ==
    \/ StopSetRunning(c)
    \/ StopJoin(c)
    \/ StopReturn(c)

(* one thread of control calls start() and stop() *)
Next ==
    \/ External
    \/ \E t \in Threads : Worker(t)
    \/ Start(1)
    \/ Stop(1)

Spec == Init /\ [][Next]_vars

(* the same with the scheduler's fairness: a thread that can run does run *)
Fairness ==
    /\ \A t \in Threads : WF_vars(Worker(t))
    /\ WF_vars(Stop(1))

(* one run over one ordinary file *)
WorldsLive ==
    {World({PathF}, Converter(None, "utf-8", <<>>), {JEuc}, {JUtf}, MaxEdits, 1, {})}

InitLive ==
    /\ world \in WorldsLive
    /\ names = world.names
    /\ converter = world.converter
    /\ InitTrees(names)
    /\ InitWatcher
    /\ edits = world.edits

SpecLive == InitLive /\ [][Next]_vars /\ Fairness

(* several threads of control call start() and stop() on one watcher *)
WorldsConc ==
    {World({PathF}, Converter("euc-jp", "utf-8", <<>>), {JEuc}, {JUtf}, 1, MaxThreads,
           {"cold", "retired"})}

InitConc ==
    /\ world \in WorldsConc
    /\ names = world.names
    /\ converter = world.converter
    /\ InitTrees(names)
    /\ InitWatcher
    /\ edits = world.edits

NextConc ==
    \/ External
    \/ \E t \in Threads : Worker(t)
    \/ \E c \in Callers : Start(c)
    \/ \E c \in Callers : Stop(c)

SpecConc == InitConc /\ [][NextConc]_vars

(* exclusion patterns: a glob on the name, a directory name, the full path of a
   file and the full path of a directory *)
PatLog == <<"*", ".", "l">>
PatDG == JoinPath(PathDG)
PatDE == JoinPath(<<NameD, NameE>>)

(* one run with an exclusion pattern, over the files the pattern is about *)
WorldsExcl ==
    {World({PathF, PathLog}, Converter("euc-jp", "utf-8", <<PatLog>>), {JEuc}, {JUtf},
           MaxEdits, 1, {}),
     World({PathF, PathDG}, Converter("euc-jp", "utf-8", <<NameD>>), {JEuc}, {JUtf},
           MaxEdits, 1, {}),
     World({PathDG}, Converter("euc-jp", "utf-8", <<PatDG>>), {JEuc}, {JUtf},
           MaxEdits, 1, {}),
     World({PathDEG, PathDEHG}, Converter("euc-jp", "utf-8", <<PatDE>>), {JEuc}, {JUtf},
           MaxEdits, 1, {})}

InitExcl ==
    /\ world \in WorldsExcl
    /\ names = world.names
    /\ converter = world.converter
    /\ InitTrees(names)
    /\ InitWatcher
    /\ edits = world.edits

SpecExcl == InitExcl /\ [][Next]_vars

(* one run over one ordinary file, with or without a configured source encoding,
   the editors writing 7-bit text, Japanese text and text outside the Japanese
   charsets *)
WorldsEnc ==
    {World({PathF}, Converter(f, "utf-8", <<>>), {JEuc, Ascii}, {JUtf, XUtf, Ascii},
           MaxEdits, 1, {}) : f \in {None, "euc-jp"}}

InitEnc ==
    /\ world \in WorldsEnc
    /\ names = world.names
    /\ converter = world.converter
    /\ InitTrees(names)
    /\ InitWatcher
    /\ edits = world.edits

SpecEnc == InitEnc /\ [][Next]_vars

(* one run over one ordinary file with a fallback charset configured, the editors
   writing, on the destination side, no text, 7-bit text, Japanese text and text
   outside the Japanese charsets *)
WorldsFallback ==
    {World({PathF}, ConverterWithFallback(None, "utf-8", <<>>, "euc-jp"), {JSjis},
           {Empty, Ascii, JUtf, XUtf}, MaxEdits + 1, 1, {})}

InitFallback ==
    /\ world \in WorldsFallback
    /\ names = world.names
    /\ converter = world.converter
    /\ InitTrees(names)
    /\ InitWatcher
    /\ edits = world.edits

SpecFallback == InitFallback /\ [][Next]_vars

(***************************************************************************)
(* The converter on its own: convert_directory and convert_file over a     *)
(* source tree, and the two functions of utils/encoding.py.                *)
(***************************************************************************)
PathD == <<NameD>>
PathDE == <<NameD, NameE>>
DirPaths == {PathD, PathDE}

(* a directory, the target of a symbolic link, bytes with a NUL among them *)
Dir(mtime) == [exists |-> TRUE, mtime |-> mtime, text |-> "d", enc |-> "dir"]
Link == [text |-> "l", enc |-> "link"]
Binary == [text |-> "b", enc |-> "bin"]

IsDir(file) == file.exists /\ file.enc = "dir"
IsLink(file) == file.exists /\ file.enc = "link"

(* the pattern of the hidden files *)
PatHidden == <<".", "*">>

(* os.path.join(rel_path, name) in convert_directory: rel_path is "." for the
   root of the walk, so the path tested for an entry of the root is "./name" *)
WalkPath(rel_path) == IF Len(rel_path) = 1 THEN <<(<<".">>)>> \o rel_path ELSE rel_path

(* os.walk reaches the directory dir: every directory on the way to it is there
   and was kept in dirs[:] at lines 77-80 *)
Walked(c, fs, dir) ==
    \A n \in 1..Len(dir) :
        LET d == SubSeq(dir, 1, n)
        IN  IsDir(fs[d]) /\ ~ShouldExclude(WalkPath(d), c.exclude_patterns)

(* Converter.convert_directory(src_dir, dst_dir): the destination tree afterwards;
   answers[p] is the detector's answer for the file at p, were it asked *)
convert_directory(c, fs, dfs, answers) ==
    [p \in DOMAIN fs |->
        IF ~fs[p].exists \/ ~Walked(c, fs, DirName(p)) THEN dfs[p]
        ELSE IF ShouldExclude(WalkPath(p), c.exclude_patterns) THEN dfs[p]
        ELSE IF IsDir(fs[p])
             THEN IF dfs[p].exists THEN dfs[p] ELSE copy_metadata(fs[p], Dir(Now))
        ELSE IF IsLink(fs[p])
             THEN IF dfs[p].exists THEN dfs[p] ELSE File(Now, Link)
        ELSE convert_file(c, fs[p], answers[p])]

(* the byte strings given to detect_encoding and to convert_encoding *)
ByteStrings == {Empty, Ascii, JEuc, JUtf, JSjis, XUtf}

(* the detector's answers for the files of a tree, were it asked *)
Answers(c, fs) ==
    IF c.from_encoding # None THEN {[p \in DOMAIN fs |-> NoAnswer]}
    ELSE {a \in [DOMAIN fs -> UNION {ChardetResults(b) : b \in ByteStrings} \cup {NoAnswer}] :
            \A p \in DOMAIN fs :
                a[p] \in IF is_text_file(fs[p]) /\ ~IsDir(fs[p]) /\ ~IsLink(fs[p])
                         THEN ChardetResults(Content(fs[p]))
                         ELSE {NoAnswer}}

(* a tree of two directories and three files converted under a pattern list, or
   one file converted from and to a name of the catalog or "jis", an alias of the
   table of lines 17-25 that Python has no codec for *)
WorldsConv ==
    {World(DirPaths \cup {PathF, PathDG, PathDEG}, Converter("euc-jp", "utf-8", pats),
           {JEuc, XUtf}, {}, MaxEdits, 1, {"pushed"})
        : pats \in {<<>>, <<NameD>>, <<PatDE>>, <<NameG>>, <<PatHidden>>}}
    \cup {World({PathF}, Converter(f, t, <<>>), {Ascii, JEuc, XUtf, Binary}, {},
                MaxEdits + 1, 1, {"pushed"})
            : f \in {None, "utf-8", "euc-jp", "jis"}, t \in {"utf-8", "euc-jp", "jis"}}

(* the source trees: every entry lies in a directory that is there; the
   destination directory is empty *)
EntriesAt(p) ==
    IF p \in DirPaths THEN {NoFile, Dir(0)}
    ELSE {NoFile} \cup {File(0, b) : b \in world.src}
         \cup IF p = PathF /\ Cardinality(world.names) > 1 THEN {File(0, Link)} ELSE {}

InitConvTrees(ns) ==
    /\ srcFS \in {fs \in [ns -> UNION {EntriesAt(p) : p \in ns}] :
                    \A p \in ns :
                        /\ fs[p] \in EntriesAt(p)
                        /\ fs[p].exists /\ Len(p) > 1 => IsDir(fs[DirName(p)])}
    /\ dstFS = [p \in ns |-> NoFile]

InitConv ==
    /\ world \in WorldsConv
    /\ names = world.names
    /\ converter = world.converter
    /\ InitConvTrees(names)
    /\ InitWatcher
    /\ edits = world.edits

(* an editor writes a regular file of the source tree *)
ConvWrite(p, m, content) ==
    /\ p \notin DirPaths
    /\ ~IsLink(srcFS[p])
    /\ Len(p) > 1 => IsDir(srcFS[DirName(p)])
    /\ ExternalWrite("src", p, m, content)

ConvertKinds == {"Converted", "Failed to convert", "Error converting", "Copied binary file"}

(* a call of convert_directory(src_dir, dst_dir) *)
ConvertDirectoryStep ==
    /\ edits > 0
    /\ edits' = edits - 1
    /\ \E answers \in Answers(converter, srcFS) :
          dstFS' = convert_directory(converter, srcFS, dstFS, answers)
    /\ ev' = Call("convert_directory", 0)
    /\ hist' = [hist EXCEPT !.pushed = Track("pushed", {})]
    /\ UNCHANGED <<world, names, converter, srcFS, Engine>>

(* a call of convert_file(src_file, dst_file) for a regular file at p, the
   directory of dst_file being there; ev.kind is the message logged, ev.det the
   source encoding used and the confidence in it *)
ConvertFileStep(p) ==
    /\ edits > 0
    /\ srcFS[p].exists /\ ~IsDir(srcFS[p]) /\ ~IsLink(srcFS[p])
    /\ ~IsLink(dstFS[p])
    /\ Len(p) > 1 => IsDir(dstFS[DirName(p)])
    /\ edits' = edits - 1
    /\ \E chardet \in IF converter.from_encoding = None /\ is_text_file(srcFS[p])
                      THEN ChardetResults(Content(srcFS[p])) ELSE {NoAnswer} :
          /\ dstFS' = [dstFS EXCEPT ![p] = convert_file(converter, srcFS[p], chardet)]
          /\ ev' = [Ev(ConvertFileLog(converter, srcFS[p], chardet), 0, Key("src", p),
                       srcFS[p], dstFS[p])
                    EXCEPT !.det = IF is_text_file(srcFS[p])
                                   THEN SourceEncoding(converter, srcFS[p], chardet)
                                   ELSE NoAnswer]
    /\ hist' = [hist EXCEPT !.pushed = Track("pushed", hist.pushed \cup {p})]
    /\ UNCHANGED <<world, names, converter, srcFS, Engine>>

(* the fallbacks detect_encoding is given: the default, another name of the
   catalog, a name outside it *)
Fallbacks == {"utf-8", "euc-jp", "latin-1"}

(* the detector's answers for the bytes given to detect_encoding: those of
   ChardetResults, and Shift-JIS reported under the detector's own spelling *)
DetectorAnswers(content) ==
    ChardetResults(content)
    \cup IF content.enc = "shift-jis" THEN {<<"shift_jis", 99>>} ELSE {}

(* a call of detect_encoding(content, fallback): ev.src holds the bytes, ev.key the
   fallback and the detector's answer, ev.det the result *)
DetectStep ==
    /\ edits > 0
    /\ edits' = edits - 1
    /\ \E content \in ByteStrings, fallback \in Fallbacks :
          \E chardet \in DetectorAnswers(content) :
             ev' = [Ev("detect_encoding", 0, <<fallback, chardet>>, File(0, content),
                       NoFile)
                    EXCEPT !.det = detect_encoding(content, fallback, chardet)]
    /\ UNCHANGED <<world, names, converter, srcFS, dstFS, Engine, hist>>

(* a call of convert_encoding(content, from_encoding, to_encoding) with the two
   names of the converter: ev.src holds the bytes given, ev.key the two names,
   ev.dst the bytes returned, ev.kind the flag returned or the exception raised *)
ConvertEncodingStep ==
    /\ edits > 0
    /\ converter.from_encoding # None
    /\ edits' = edits - 1
    /\ \E content \in ByteStrings :
          LET r == convert_encoding(content, converter.from_encoding,
                                    converter.to_encoding)
          IN  ev' = Ev(IF r.raised THEN "LookupError"
                       ELSE IF r.success THEN "True" ELSE "False",
                       0, <<converter.from_encoding, converter.to_encoding>>,
                       File(0, content),
                       IF r.raised THEN NoFile ELSE File(0, r.content))
    /\ UNCHANGED <<world, names, converter, srcFS, dstFS, Engine, hist>>

NextConv ==
    \/ \E p \in names, m \in Mtimes, content \in world.src : ConvWrite(p, m, content)
    \/ ConvertDirectoryStep
    \/ \E p \in names : ConvertFileStep(p)
    \/ DetectStep
    \/ ConvertEncodingStep

SpecConv == InitConv /\ [][NextConv]_vars

(* the watcher left running: the worker runs when it can and a stop() that was
   called goes on, but nothing obliges the caller to call stop() *)
FairnessRunning ==
    /\ \A t \in Threads : WF_vars(Worker(t))
    /\ WF_vars(StopJoin(1) \/ StopReturn(1))

(* one run over two ordinary files, or over one *)
WorldsQuiet ==
    {World(ns, Converter("euc-jp", "utf-8", <<>>), {JEuc}, {JUtf}, MaxEdits, 1, {})
        : ns \in {{PathF}, {PathF, PathG}}}

InitQuiet ==
    /\ world \in WorldsQuiet
    /\ names = world.names
    /\ converter = world.converter
    /\ InitTrees(names)
    /\ InitWatcher
    /\ edits = world.edits

SpecQuiet == InitQuiet /\ [][Next]_vars /\ FairnessRunning

(* one run over one ordinary file that has a source encoding configured, the
   write-backs remembered *)
WorldsEcho ==
    {World({PathF}, Converter("euc-jp", "utf-8", <<>>), {JEuc}, {JUtf}, MaxEdits, 1,
           {"written"})}

InitEcho ==
    /\ world \in WorldsEcho
    /\ names = world.names
    /\ converter = world.converter
    /\ InitTrees(names)
    /\ InitWatcher
    /\ edits = world.edits

SpecEcho == InitEcho /\ [][Next]_vars

(***************************************************************************)
(* Properties.                                                             *)
(***************************************************************************)
SourceKinds == {"push", "push_error"}
DestinationKinds == {"dst_excluded", "dst_missing", "dst_ignored", "dst_raise", "writeback"}
DeletedKinds == {"del_temp", "del_remove", "del_absent"}
HandlerKinds == SourceKinds \cup DestinationKinds \cup DeletedKinds

(* C1: a destination-side change whose source file exists is written back only if
   the destination file's mtime is strictly greater than the source file's at
   that moment; otherwise the source file is left as it was. *)
FeedbackLoopGuard ==
    (/\ ev.kind \in DestinationKinds
     /\ ev.src.exists /\ ev.dst.exists
     /\ ~(ev.dst.mtime > ev.src.mtime))
    => (ev.kind # "writeback" /\ srcFS[ev.key[2]] = ev.src)

FeedbackLoopGuardWitness ==
    /\ ev.kind = "dst_ignored"
    /\ ev.src.exists /\ ev.dst.exists
    /\ ev.dst.mtime = ev.src.mtime

(* C2: once a tick has pushed path p forward and no editor has touched p since,
   a destination key of p that a tick finds new or modified is ignored, and the
   source file stays as it was. *)
PushForwardNotWrittenBack ==
    (ev.kind \in DestinationKinds /\ ev.key[2] \in hist.pushed)
    => (/\ ev.kind \in {"dst_ignored", "dst_missing", "dst_excluded"}
        /\ srcFS[ev.key[2]] = ev.src)

(* C3: when a tick finds both the source and the destination file of a path
   modified, the destination edit with the strictly newer mtime is not
   overwritten by the push-forward. *)
LastWriteWins ==
    ~(/\ ev.kind = "push"
      /\ ev.dst.exists
      /\ ev.dst.mtime > ev.src.mtime
      /\ Key("dst", ev.key[2]) \in todo[ev.who]
      /\ Key("dst", ev.key[2]) \in DOMAIN file_mtimes
      /\ cur[ev.who][Key("dst", ev.key[2])] = ev.dst.mtime
      /\ IsChanged(file_mtimes, cur[ev.who], Key("dst", ev.key[2])))

(* C4: the mirror of every key of the snapshot that the scan no longer has is
   removed by the tick, editor artifacts apart: the deletion handler leaves no
   mirror of its key, and no tick ends, by an exception, before the mirror of
   such a key is removed. *)
DeletionPropagated ==
    /\ ev.kind \in {"del_remove", "del_absent"}
          => ~FS(Other(ev.key[1]))[ev.key[2]].exists
    /\ \A t \in Threads :
          (wpc[t] = "except" /\ ev.kind = "dst_raise" /\ ev.who = t)
          => \A k \in DeletedKeys(file_mtimes, cur[t]) :
                \/ IsTempEditorFile(BaseName(k[2]))
                \/ ~FS(Other(k[1]))[k[2]].exists

(* C5: an editor artifact is in no snapshot and no handler is run for its key,
   so no tick converts it or touches its mirror. *)
ArtifactsNeverSynced ==
    /\ \A k \in DOMAIN file_mtimes : ~IsTempEditorFile(BaseName(k[2]))
    /\ \A t \in Threads : \A k \in DOMAIN cur[t] : ~IsTempEditorFile(BaseName(k[2]))
    /\ ev.kind \in HandlerKinds \cup {"unchanged"} => ~IsTempEditorFile(BaseName(ev.key[2]))

ArtifactsNeverSyncedWitness ==
    \E p \in names :
        /\ IsTempEditorFile(BaseName(p))
        /\ srcFS[p].exists /\ ~dstFS[p].exists
        /\ edits < world.edits
        /\ ev.kind = "replace"

(* C6: no handler is run for the key of a file that was there when start() was
   called and has not been written or removed since. *)
StartupBaseline == ev.kind \in HandlerKinds => ev.key \notin hist.pristine

StartupBaselineWitness == ev.kind = "unchanged" /\ ev.key \in hist.pristine

(* C7: when a stop() returns, every worker that was in the loop when it was called
   has terminated, and none of them writes or removes a file afterwards. *)
StopJoinsWorker ==
    /\ ev.kind = "stop_return" => \A t \in hist.cold[ev.who] : ~Alive(t)
    /\ ev.kind \in {"push", "writeback", "del_remove"} => ev.who \notin hist.retired

(* C8: at most one worker is in the watch loop, and at most one tick is in
   progress. *)
TicksNeverOverlap ==
    /\ Cardinality({t \in Threads : Alive(t)}) <= 1
    /\ Cardinality({t \in Threads : wpc[t] \in {"scan", "changes", "deletes"}}) <= 1

(* C9: a start() called while the watcher is running returns at once and leaves
   the running flag, the worker reference, the snapshot, the fallback-file set
   and the threads as they were. *)
StartNoOpWhenRunning ==
    [][\A c \in Callers :
          (cpc[c] = "idle" /\ running /\ ev'.kind \in {"start", "start_running"}
           /\ ev'.who = c)
          => /\ cpc'[c] = "idle"
             /\ UNCHANGED <<running, thread, file_mtimes, fallback_files, nthreads, wpc>>]_vars

StartNoOpWhenRunningWitness ==
    /\ ev.kind = "start_running"
    /\ running /\ thread # 0 /\ Alive(thread)
    /\ DOMAIN file_mtimes # {}

(* C10: once stop() is called the worker begins no tick after the one in progress,
   and stop() returns: the worker ends its tick and its sleep, finds the flag
   cleared and terminates, and the join ends. *)
StopIsLive ==
    /\ [][\A t \in Threads :
             (cpc[1] \in {"stop_98", "stop_join"} /\ wpc[t] = "loop")
             => wpc'[t] # "scan"]_vars
    /\ (cpc[1] \in {"stop_98", "stop_join"}) ~> (cpc[1] = "idle")

StopIsLiveWitness ==
    /\ cpc[1] = "stop_join"
    /\ wpc[cjoin[1]] \in {"changes", "deletes"}

(* C11: once stop() has cleared the running flag the worker begins no further
   conversion and no further deletion: every push-forward, write-back and removal
   of a mirror is begun while the flag is set. *)
CooperativeCancellation ==
    ev.kind \in {"push", "writeback", "del_remove"} => running

(* C12: a handler that fails on its key does not end the tick: after a failed
   push-forward or a failed write-back the worker is still in its tick, not in
   the except clause of the loop. *)
PerFileErrorsContained ==
    ev.kind \in {"push_error", "dst_raise"} => wpc[ev.who] # "except"

(* C13: an exception that leaves a tick does not end the worker: the worker goes
   from the except clause to the loop test only, and, while the watcher is
   running, begins another tick. *)
LoopErrorRetried ==
    /\ [][\A t \in Threads : wpc[t] = "except" => wpc'[t] \in {"except", "loop"}]_vars
    /\ \A t \in Threads :
          (wpc[t] = "except" /\ running) ~> (wpc[t] = "scan" \/ ~running)

LoopErrorRetriedWitness ==
    /\ ev.kind = "caught"
    /\ running /\ wpc[ev.who] = "loop"

(* C14: when a tick ends, the stored snapshot is the mapping its scan produced:
   the same keys with the same mtimes. *)
SnapshotReplacedByScan == ev.kind = "replace" => file_mtimes = cur[ev.who]

SnapshotReplacedByScanWitness ==
    /\ ev.kind = "replace"
    /\ \E k \in DOMAIN file_mtimes : file_mtimes[k] > 0
    /\ \E p \in names : ~srcFS[p].exists /\ ~dstFS[p].exists

(* C15: after the seeding scan of a watch start the snapshot holds the files that
   are there at that start and nothing else, and the fallback-file set is empty. *)
SnapshotEmptyAtStart ==
    ev.kind = "seed" => (file_mtimes = ScanBoth(NoMtimes) /\ fallback_files = {})

(* the encoding a write-back encodes with, by C16: the one detected from the
   source file when the confidence is at least 0.7, else the configured source
   encoding, utf-8 if there is none *)
SourceEncodingFor(src_file, chardet) ==
    LET d == detect_encoding(Content(src_file), "utf-8", chardet) IN
    IF d[2] >= 70 THEN d[1]
    ELSE IF converter.from_encoding # None THEN converter.from_encoding
    ELSE "utf-8"

(* C16: a write-back over an existing, untagged source file leaves the source
   holding the destination's text encoded in the encoding detected from the old
   source file (confidence >= 0.7), else in the configured source encoding, else
   in utf-8; it is not left in the destination's encoding when another encoding
   was detected. *)
WriteBackRespectsSourceEncoding ==
    (/\ ev.kind = "writeback"
     /\ ev.src.exists
     /\ ev.key[2] \notin fallback_files)
    => LET to == SourceEncodingFor(ev.src, ev.det) IN
       /\ Content(srcFS[ev.key[2]]) = Bytes(ev.dst.text, to)
       /\ to # converter.to_encoding /\ ~IsAsciiText(ev.dst.text)
             => srcFS[ev.key[2]].enc # converter.to_encoding

(* C16, amended: the same, unless the destination's bytes cannot be decoded with
   the destination's encoding or its text cannot be encoded in that encoding:
   the source then holds the destination's bytes unchanged. *)
WriteBackRespectsSourceEncodingOrCopies ==
    (/\ ev.kind = "writeback"
     /\ ev.src.exists
     /\ ev.key[2] \notin fallback_files)
    => LET to == SourceEncodingFor(ev.src, ev.det) IN
       IF /\ CanDecode(Content(ev.dst), converter.to_encoding)
          /\ CanEncode(ev.dst.text, to)
       THEN Content(srcFS[ev.key[2]]) = Bytes(ev.dst.text, to)
       ELSE Content(srcFS[ev.key[2]]) = Content(ev.dst)

WriteBackRespectsSourceEncodingWitness ==
    /\ ev.kind = "writeback"
    /\ ev.src.exists /\ ev.src.enc = "euc-jp"
    /\ converter.from_encoding = None
    /\ ev.dst.text = "j" /\ ev.dst.enc = "utf-8" /\ ev.dst.mtime > ev.src.mtime
    /\ srcFS[ev.key[2]].enc = "euc-jp"

(* C17: the handler of a new destination key whose path has no source file writes
   the file back and the tick goes on: the source file exists afterwards and,
   with a fallback charset configured, holds the text in that charset and the
   path is in the fallback-file set. *)
NewDestinationFileWrittenBack ==
    (/\ ev.kind \in DestinationKinds \ {"dst_excluded"}
     /\ ev.key \notin DOMAIN file_mtimes
     /\ ev.dst.exists /\ ~ev.src.exists)
    => /\ ev.kind = "writeback"
       /\ wpc[ev.who] # "except"
       /\ srcFS[ev.key[2]].exists
       /\ FallbackCharset(converter) # None
             => /\ Content(srcFS[ev.key[2]])
                      = Bytes(ev.dst.text, FallbackCharset(converter))
                /\ ev.key[2] \in fallback_files

(* C18: a step adds a path to the fallback-file set only if it is the write-back
   of that path, with no source file, with a fallback charset configured and
   with 7-bit content. *)
TagAddedOnlyForNewAsciiPath ==
    [][\A p \in names :
          (p \notin fallback_files /\ p \in fallback_files')
          => /\ ev'.kind = "writeback" /\ ev'.key[2] = p
             /\ ~ev'.src.exists
             /\ FallbackCharset(converter) # None
             /\ IsAsciiText(ev'.dst.text)]_vars

(* C18, amended: the same, whatever the content. *)
TagAddedOnlyForNewPath ==
    [][\A p \in names :
          (p \notin fallback_files /\ p \in fallback_files')
          => /\ ev'.kind = "writeback" /\ ev'.key[2] = p
             /\ ~ev'.src.exists
             /\ FallbackCharset(converter) # None]_vars

TagAddedOnlyForNewPathWitness ==
    /\ ev.kind = "writeback"
    /\ ~ev.src.exists
    /\ ev.key[2] \in fallback_files
    /\ ~IsAsciiText(ev.dst.text)

(* C19: the write-back of a path over its source file, when that file is not
   empty and lets the detector name, with confidence >= 0.7, an encoding other
   than the fallback charset, leaves the path untagged and the source encoded in
   the detected encoding. *)
TagDroppedOnDetection ==
    (/\ ev.kind = "writeback"
     /\ ev.src.exists /\ ev.src.text # "e"
     /\ LET d == detect_encoding(Content(ev.src), "utf-8", ev.det) IN
        d[2] >= 70 /\ d[1] # FallbackCharset(converter)
     /\ CanDecode(Content(ev.dst), converter.to_encoding)
     /\ CanEncode(ev.dst.text, detect_encoding(Content(ev.src), "utf-8", ev.det)[1]))
    => /\ ev.key[2] \notin fallback_files
       /\ Content(srcFS[ev.key[2]])
             = Bytes(ev.dst.text, detect_encoding(Content(ev.src), "utf-8", ev.det)[1])

(* C20: every write-back of a tagged path over its existing source file leaves
   the source holding the destination's text in the fallback charset. *)
FallbackCharsetMaintained ==
    (/\ ev.kind = "writeback"
     /\ ev.src.exists
     /\ ev.key[2] \in fallback_files)
    => Content(srcFS[ev.key[2]]) = Bytes(ev.dst.text, FallbackCharset(converter))

(* C20, amended: the same, unless the destination's bytes cannot be decoded with
   the destination's encoding or the text cannot be encoded in the fallback
   charset: the source then holds the destination's bytes unchanged. *)
FallbackCharsetMaintainedOrCopies ==
    (/\ ev.kind = "writeback"
     /\ ev.src.exists
     /\ ev.key[2] \in fallback_files)
    => IF /\ CanDecode(Content(ev.dst), converter.to_encoding)
          /\ CanEncode(ev.dst.text, FallbackCharset(converter))
       THEN Content(srcFS[ev.key[2]]) = Bytes(ev.dst.text, FallbackCharset(converter))
       ELSE Content(srcFS[ev.key[2]]) = Content(ev.dst)

FallbackCharsetMaintainedWitness ==
    /\ ev.kind = "writeback"
    /\ ev.src.exists /\ IsAsciiText(ev.src.text)
    /\ ev.key[2] \in fallback_files
    /\ ev.dst.text = "j"
    /\ srcFS[ev.key[2]].enc = "euc-jp"

(* C21: a file whose relative path matches an exclusion pattern is in no snapshot
   and no handler is run for its key; only an editor's step changes the file or
   its mirror; and a write-back is of a destination file that exists. *)
ExcludedNeverSynced ==
    /\ [](/\ \A k \in DOMAIN file_mtimes :
                ~ShouldExclude(k[2], converter.exclude_patterns)
          /\ \A t \in Threads : \A k \in DOMAIN cur[t] :
                ~ShouldExclude(k[2], converter.exclude_patterns)
          /\ ev.kind \in HandlerKinds \cup {"unchanged"}
                => ~ShouldExclude(ev.key[2], converter.exclude_patterns)
          /\ ev.kind = "writeback" => ev.dst.exists)
    /\ [][\A p \in names :
             (/\ ShouldExclude(p, converter.exclude_patterns)
              /\ (srcFS'[p] # srcFS[p] \/ dstFS'[p] # dstFS[p]))
             => edits' < edits]_vars

ExcludedNeverSyncedWitness ==
    \E p \in names :
        /\ ShouldExclude(p, converter.exclude_patterns)
        /\ srcFS[p].exists /\ srcFS[p].mtime > 0 /\ ~dstFS[p].exists
        /\ ev.kind = "replace"

(* C22: no file under a directory whose relative path matches an exclusion
   pattern is in a snapshot. *)
ExcludedDirectoryPruned ==
    \A k \in DOMAIN file_mtimes :
        \A n \in 1..(Len(k[2]) - 1) :
            ~ShouldExclude(SubSeq(k[2], 1, n), converter.exclude_patterns)

(* C24: a key of the scan is handled as changed exactly when it is not in the
   stored snapshot or its scanned mtime is strictly greater than the stored one;
   otherwise no handler is run for it; a changed key with prefix src goes to the
   push-forward handler and one with prefix dst to the write-back handler, and a
   key is not handled twice in a tick. *)
ChangeDetection ==
    ev.kind \in SourceKinds \cup DestinationKinds \cup {"unchanged"}
    => LET k == ev.key
           changed == \/ k \notin DOMAIN file_mtimes
                      \/ cur[ev.who][k] > file_mtimes[k]
       IN  /\ k \in DOMAIN cur[ev.who]
           /\ k \notin todo[ev.who]
           /\ ev.kind = "unchanged" <=> ~changed
           /\ ev.kind \in SourceKinds <=> (changed /\ k[1] = "src")
           /\ ev.kind \in DestinationKinds <=> (changed /\ k[1] = "dst")

ChangeDetectionWitness ==
    /\ ev.kind = "unchanged"
    /\ ev.key \in DOMAIN file_mtimes
    /\ cur[ev.who][ev.key] < file_mtimes[ev.key]

(* the path is exclusion-matched or lies under an exclusion-matched directory *)
ExclusionMatched(p, exclude_patterns) ==
    \E n \in 1..Len(p) : ShouldExclude(SubSeq(p, 1, n), exclude_patterns)

(* C23: a call of convert_directory creates or changes nothing in the destination
   at a path that is exclusion-matched or lies under an exclusion-matched
   directory, and after it every regular file of the source tree whose path is
   not such a path has a counterpart in the destination. *)
ExcludedNeverMaterialized ==
    [][ev'.kind = "convert_directory"
       => \A p \in names :
            /\ ExclusionMatched(p, converter.exclude_patterns) => dstFS'[p] = dstFS[p]
            /\ (/\ ~ExclusionMatched(p, converter.exclude_patterns)
                /\ srcFS[p].exists /\ ~IsDir(srcFS[p]) /\ ~IsLink(srcFS[p]))
               => dstFS'[p].exists]_vars

(* C25: after a call of convert_file that returns, whichever branch it took
   (transcoded, copied after a failed transcoding, copied as binary), the
   destination file is there with the modification time of the source file. *)
MetadataAlwaysCopied ==
    ev.kind \in ConvertKinds
    => /\ dstFS[ev.key[2]].exists
       /\ dstFS[ev.key[2]].mtime = ev.src.mtime
       /\ srcFS[ev.key[2]] = ev.src

MetadataAlwaysCopiedWitness ==
    /\ ev.kind = "Converted"
    /\ ev.src.mtime # Now
    /\ Content(dstFS[ev.key[2]]) # Content(ev.src)

(* the destination file holds the source's text transcoded to the target encoding,
   or the source's bytes as they are *)
TranscodedOrCopied(c, src_file, dst_file) ==
    /\ dst_file.exists
    /\ \/ Content(dst_file) = Content(src_file)
       \/ /\ src_file.text # "b"
          /\ Content(dst_file) = Bytes(src_file.text, c.to_encoding)

(* C26: after a call of convert_file the destination file holds the transcoding of
   the source content or a byte-identical copy of it, never less; and a call of
   convert_directory leaves every regular file it comes to so in the destination,
   also when the conversion of another file failed. *)
NoDataLoss ==
    /\ [](ev.kind \in ConvertKinds
          => /\ TranscodedOrCopied(converter, ev.src, dstFS[ev.key[2]])
             /\ ev.kind # "Converted" => Content(dstFS[ev.key[2]]) = Content(ev.src))
    /\ [][ev'.kind = "convert_directory"
          => \A p \in names :
                (/\ srcFS[p].exists /\ ~IsDir(srcFS[p]) /\ ~IsLink(srcFS[p])
                 /\ Walked(converter, srcFS, DirName(p))
                 /\ ~ShouldExclude(WalkPath(p), converter.exclude_patterns))
                => TranscodedOrCopied(converter, srcFS[p], dstFS'[p])]_vars

NoDataLossWitness ==
    /\ ev.kind = "convert_directory"
    /\ PathDG \in names
    /\ srcFS[PathF].exists /\ Content(srcFS[PathF]) = XUtf /\ dstFS[PathF] = srcFS[PathF]
    /\ srcFS[PathDG].exists /\ Content(srcFS[PathDG]) = JEuc
    /\ dstFS[PathDG].exists /\ Content(dstFS[PathDG]) = JUtf

(* C27: a call of convert_file logs "Skipped", and converts nothing, exactly when
   the same file was converted by an earlier call and the source file has not
   been written since; a first call, and the call after the source file was
   modified, convert. *)
SkipsUpToDateDestination ==
    [][ev'.kind \in ConvertKinds \cup {"Skipped"}
       => /\ ev'.kind = "Skipped" <=> ev'.key[2] \in hist.pushed
          /\ ev'.kind = "Skipped" => dstFS' = dstFS]_vars

TranscoderKinds == {"True", "False", "LookupError"}

(* C28: for every byte string and every two different encoding names,
   convert_encoding returns the text re-encoded with the flag True or the bytes it
   was given with the flag False; it raises nothing. *)
TranscoderFailureIsValue ==
    ev.kind \in TranscoderKinds /\ ev.key[1] # ev.key[2]
    => /\ ev.kind # "LookupError"
       /\ ev.kind = "True" => Content(ev.dst) = Bytes(ev.src.text, ev.key[2])
       /\ ev.kind = "False" => Content(ev.dst) = Content(ev.src)

(* C29: convert_encoding given the same name twice returns the bytes it was given,
   with the flag True, whatever the name and also when the bytes cannot be
   decoded under it. *)
TranscoderIdentity ==
    ev.kind \in TranscoderKinds /\ ev.key[1] = ev.key[2]
    => ev.kind = "True" /\ ev.dst = ev.src

TranscoderIdentityWitness ==
    /\ ev.kind = "True"
    /\ ev.key[1] = ev.key[2]
    /\ ev.key[1] \in PythonCodecs
    /\ ~CanDecode(Content(ev.src), ev.key[1])
    /\ ev.dst = ev.src

(* C30: detect_encoding given non-empty content of 7-bit bytes only returns
   "ascii" with confidence 1.0, and convert_file with auto-detection logs no
   low-confidence warning for a file of such content. *)
AsciiIsItsOwnEncoding ==
    /\ ev.kind = "detect_encoding" /\ ev.src.text = "a" => ev.det = <<"ascii", 100>>
    /\ (/\ ev.kind \in ConvertKinds
        /\ converter.from_encoding = None
        /\ ev.src.text = "a")
       => ~LowConfidenceWarning(converter, ev.src, <<"ascii", 100>>)

(* C31: detect_encoding returns a pair for every byte string and fallback; for
   non-empty bytes, when the detector reports no encoding or one that is not in
   the catalog after normalization the pair is (fallback, 0.0), and otherwise the
   name returned is the detector's name normalized, a member of the catalog, with
   the detector's confidence; the name returned is always in the catalog or is
   the fallback. *)
DetectionStaysInCatalog ==
    ev.kind = "detect_encoding"
    => LET fallback == ev.key[1]
           chardet == ev.key[2]
           undetected == \/ chardet[1] = None
                         \/ normalize_encoding(chardet[1]) \notin SUPPORTED_ENCODINGS
       IN  /\ ev.det[1] \in SUPPORTED_ENCODINGS \cup {fallback}
           /\ ev.det[2] \in 0..100
           /\ ev.src.text # "e" /\ undetected => ev.det = <<fallback, 0>>
           /\ ev.src.text # "e" /\ ~undetected
              => /\ ev.det[1] \in SUPPORTED_ENCODINGS
                 /\ ev.det[1] = normalize_encoding(chardet[1])
                 /\ normalize_encoding(ev.det[1]) = ev.det[1]
                 /\ ev.det[2] = chardet[2]

DetectionStaysInCatalogWitness ==
    /\ ev.kind = "detect_encoding"
    /\ ev.key[2] = <<"windows-1252", 73>>
    /\ ev.key[1] = "latin-1"
    /\ ev.det = <<"latin-1", 0>>

(* C32: the external edits being finitely many, from some tick on the watcher
   pushes nothing forward, writes nothing back and removes nothing. *)
Quiescence == <>[](ev.kind \notin {"push", "writeback", "del_remove"})

(* C33: when the handling of a deleted key removes the file of the same path on
   the opposite side, that file is as the stored snapshot has it: its key is in
   the snapshot with the mtime the file had, so it is neither a file written
   since the snapshot by the tick nor one an editor wrote since. *)
DeletionSparesFreshContent ==
    ev.kind = "del_remove"
    => LET opposite == Key(Other(ev.key[1]), ev.key[2])
           removed == IF ev.key[1] = "src" THEN ev.dst ELSE ev.src
       IN  /\ opposite \in DOMAIN file_mtimes
           /\ file_mtimes[opposite] = removed.mtime

(* C34: a path that was written back, no external edit of it having followed, is
   not pushed forward and not written back again, and its destination file stays
   as it is. *)
WriteBackNotEchoed ==
    [][\A p \in hist.written :
          /\ ~(ev'.kind \in {"push", "writeback"} /\ ev'.key[2] = p)
          /\ p \in hist'.written => dstFS'[p] = dstFS[p]]_vars

(* a key's entry in a snapshot, or its absence *)
Entry(mtimes, k) == IF k \in DOMAIN mtimes THEN <<mtimes[k]>> ELSE <<>>

(* the keys whose change the tick of worker t has still to handle *)
Unhandled(t) ==
    IF wpc[t] = "changes"
    THEN {k \in todo[t] : IsChanged(file_mtimes, cur[t], k)}
         \cup DeletedKeys(file_mtimes, cur[t])
    ELSE IF wpc[t] = "deletes" THEN dtodo[t]
    ELSE {}

(* C35: while a tick runs, and when an exception ends it, the stored snapshot
   keeps the entry, or the absence, of every key whose change the tick has not
   handled, the key at which the exception was raised included; the except clause
   leaves the snapshot as it is; so after the aborted tick each such key is still
   new, modified or deleted against the stored snapshot. *)
NoChangeLostOnAbort ==
    [][\A t \in Threads :
          /\ \A k \in Unhandled(t) :
                \/ Entry(file_mtimes', k) = Entry(file_mtimes, k)
                \/ ev'.kind \in DeletedKinds /\ ev'.who = t /\ ev'.key = k
          /\ wpc'[t] = "except"
             => \A k \in Unhandled(t) :
                   IF k \in DOMAIN cur[t]
                   THEN IsChanged(file_mtimes', cur[t], k)
                   ELSE k \in DeletedKeys(file_mtimes', cur[t]) \/ ev'.key = k
          /\ wpc[t] = "except" => file_mtimes' = file_mtimes]_vars

NoChangeLostOnAbortWitness ==
    /\ ev.kind = "dst_raise"
    /\ wpc[ev.who] = "except"
    /\ IsChanged(file_mtimes, cur[ev.who], ev.key)
    /\ DeletedKeys(file_mtimes, cur[ev.who]) # {}

====
